---- MODULE Spec2Model ----
(***************************************************************************)
(* Model of src/server.js: the per-chat session map, the command handlers  *)
(* (/cancel, /test, /forward), the free-text step handler and the copy     *)
(* loop it runs.                                                           *)
(*                                                                         *)
(* JavaScript objects are modelled as a heap: `sessions` maps a chat to    *)
(* the identity of its session object, `heap` holds the objects' fields.   *)
(* A handler that is suspended at an await keeps the reference `s` it      *)
(* obtained before the await, exactly as the closure in the source does,   *)
(* so resetSession (which stores a NEW object in the map) and a handler    *)
(* still holding the old object are told apart.                            *)
(*                                                                         *)
(* Every await is a point where other handlers may run.  An await that is  *)
(* followed only by handler-local work, or by nothing, is merged with the  *)
(* step before it; bot.sendMessage is taken to resolve (spec.md section 6).*)
(***************************************************************************)
EXTENDS Integers, Sequences, FiniteSets, TLC

\* ------------------------------------------------------------------ bounds
NumChats == 1
MaxHandlers == 2
MaxId == 2

Handlers == 1..MaxHandlers
\* the chats that talk to the bot: one, and for the check of chat isolation two
SoloChats == 1..NumChats
PairChats == 1..(NumChats + 1)

\* ------------------------------------------------------- JavaScript values
Undefined == [t |-> "undefined"]
Null == [t |-> "null"]
NaN == [t |-> "NaN"]
Infinity == [t |-> "Infinity"]
Num(n) == [t |-> "num", v |-> n]
Str(cs) == [t |-> "string", v |-> cs]

IsNum(x) == x.t = "num"
\* a <= b of JavaScript on the values the loop compares: false when either
\* side is undefined or NaN
Leq(a, b) == IsNum(a) /\ IsNum(b) /\ a.v <= b.v
Lt(a, b) == IsNum(a) /\ IsNum(b) /\ a.v < b.v
\* mid++
Inc(a) == IF IsNum(a) THEN Num(a.v + 1) ELSE NaN
\* !x for the values a reference can take
Falsy(x) == x.t \in {"undefined", "null", "NaN"} \/ (IsNum(x) /\ x.v = 0)

\* ------------------------------------------------------------- characters
Digits == {"0", "1", "2", "3", "4", "5", "6", "7", "8", "9"}
Letters ==
  {"a", "b", "c", "d", "e", "f", "g", "h", "i", "j", "k", "l", "m",
   "n", "o", "p", "q", "r", "s", "t", "u", "v", "w", "x", "y", "z",
   "A", "B", "C", "D", "E", "F", "G", "H", "I", "J", "K", "L", "M",
   "N", "O", "P", "Q", "R", "S", "T", "U", "V", "W", "X", "Y", "Z"}
WordChars == Letters \cup Digits \cup {"_"}
Space == {" "}

DigitVal(c) ==
  CASE c = "0" -> 0 [] c = "1" -> 1 [] c = "2" -> 2 [] c = "3" -> 3
    [] c = "4" -> 4 [] c = "5" -> 5 [] c = "6" -> 6 [] c = "7" -> 7
    [] c = "8" -> 8 [] c = "9" -> 9

RECURSIVE TrimLeft(_)
TrimLeft(cs) ==
  IF cs # <<>> /\ Head(cs) \in Space THEN TrimLeft(Tail(cs)) ELSE cs

RECURSIVE TrimRight(_)
TrimRight(cs) ==
  IF cs # <<>> /\ cs[Len(cs)] \in Space
    THEN TrimRight(SubSeq(cs, 1, Len(cs) - 1))
    ELSE cs

\* String.prototype.trim
Trim(cs) == TrimRight(TrimLeft(cs))

AllIn(cs, S) == \A i \in 1..Len(cs) : cs[i] \in S

\* /^-?\d+$/
IsNumeric(cs) ==
  LET body == IF cs # <<>> /\ Head(cs) = "-" THEN Tail(cs) ELSE cs
  IN  body # <<>> /\ AllIn(body, Digits)

RECURSIVE DecVal(_)
DecVal(cs) ==
  IF cs = <<>> THEN 0 ELSE 10 * DecVal(SubSeq(cs, 1, Len(cs) - 1)) + DigitVal(cs[Len(cs)])

\* Number(raw) for a string that matches /^-?\d+$/
ToNumber(cs) ==
  IF Head(cs) = "-" THEN Num(0 - DecVal(Tail(cs))) ELSE Num(DecVal(cs))

MinUsernameLen == 5

\* /^[A-Za-z0-9_]{5,}$/
IsUsername(cs) == Len(cs) >= MinUsernameLen /\ AllIn(cs, WordChars)

normalizeChatRef(input) ==
  LET raw == Trim(input)
      uname == IF raw # <<>> /\ Head(raw) = "@" THEN Tail(raw) ELSE raw
  IN  IF raw = <<>> THEN Null
      ELSE IF IsNumeric(raw) THEN ToNumber(raw)
      ELSE IF ~IsUsername(uname) THEN Null
      ELSE Str(<<"@">> \o uname)

\* ------------------------------------------------------------------ inputs
\* texts a user may send as a non-command message (plus one command text,
\* which the step handler must ignore)
Texts ==
  { <<" ">>,
    <<"a", "b", "c">>,
    <<"0">>,
    <<"4", "2">>,
    <<"c", "h", "a", "n", "_", "1">>,
    <<"@", "c", "h", "a", "n", "_", "1", " ">>,
    <<"/", "x">> }

\* the two numbers /forward parses out of its match groups; a digit string
\* too long for a double parses to Infinity
ForwardArgs == {Num(i) : i \in 1..MaxId} \cup {Infinity}

\* Number.isInteger
IsInteger(x) == IsNum(x)

\* what bot.copyMessage can reject with: e.response.statusCode and the
\* retry_after parameter
CopyErrors ==
  { [status |-> 400, retryAfter |-> Null],
    [status |-> 429, retryAfter |-> Null],
    [status |-> 429, retryAfter |-> Num(0)] }

\* the id getChat reports for a username: @chan_1 is the chat with id 42
ChatIdOf(ref) == Num(42)

\* ------------------------------------------------------------------- state
VARIABLES
  sessions,   \* the Map: chat -> identity of its session object, 0 = no entry
  heap,       \* identity -> the object's fields
  handlers,   \* the suspended invocations of the step handler
  sent        \* the message the last step sent with bot.sendMessage, if any

vars == <<sessions, heap, handlers, sent>>

\* the chats of the run at hand: msg.chat.id
Chats == DOMAIN sessions

\* step: null | "SRC" | "DST" | "TEST_USERNAME"
NONE == "null"

\* { step: null, running: false }
DefaultSession == [step |-> NONE, running |-> FALSE]

\* o.f, undefined when the object has no such property
Get(o, f) == IF f \in DOMAIN o THEN o[f] ELSE Undefined
\* o.f = v
Put(o, f, v) == [x \in DOMAIN o \cup {f} |-> IF x = f THEN v ELSE o[x]]

\* an identity no live object has; canonical identities are the chat for
\* the objects in the Map and, with n chats, n + h for an object only
\* handlers hold
Fresh == NumChats + 1 + MaxHandlers + 1

IdleH ==
  [pc |-> "idle", chat |-> 0, s |-> 0, ref |-> Undefined,
   srcId |-> Undefined, dstId |-> Undefined, mid |-> Undefined,
   ok |-> 0, fail |-> 0,
   \* history, not program state: the range the loop started with, and
   \* whether this is the run whose termination is followed
   lo |-> Undefined, hi |-> Undefined, tracked |-> FALSE]

\* a message to chat c: its fixed text and the values it interpolates
Msg(c, text, data) == [to |-> c, text |-> text, data |-> data]
NoMsg == Msg(0, "", <<>>)

Active(hs) == {h \in Handlers : hs[h].pc # "idle"}
Min(S) == CHOOSE x \in S : \A y \in S : x <= y

\* the properties of its session object that a suspended invocation of the
\* step handler still reads after the await it is at (lines 252, 277)
LiveFields(pc) ==
  CASE pc = "resolveSrc" -> {"dstRef", "startId", "endId"}
    [] pc = "resolveDst" -> {"startId", "endId"}
    [] pc = "starting" -> {"startId", "endId"}
    [] pc \in {"copy", "retry"} -> {"endId"}
    [] OTHER -> {}

\* the invocations that still hold a reference they use
Holders(hs) == {h \in Handlers : LiveFields(hs[h].pc) # {}}

\* Garbage collection, as the JavaScript runtime's is unobservable: renames
\* the identities of a state to the canonical ones, drops the objects nothing
\* refers to any more and, of an object that is no longer in the Map, the
\* properties that none of the invocations holding it reads again.
Canon(sess, hp, hs0) ==
  LET act == Active(hs0)
      n0 == Cardinality(act)
      \* the invocations keep their order and take the lowest slots
      hs == IF act = 1..n0 THEN hs0
            ELSE [n \in Handlers |->
                    IF n <= n0
                      THEN hs0[CHOOSE h \in act : Cardinality({x \in act : x <= h}) = n]
                      ELSE IdleH]
      holders == Holders(hs)
      held == {hs[h].s : h \in holders}
      inMap == {sess[c] : c \in DOMAIN sess} \ {0}
      live == held \cup inMap
      name == [id \in live |->
                 IF id \in inMap
                   THEN CHOOSE c \in DOMAIN sess : sess[c] = id
                   ELSE Cardinality(DOMAIN sess) + Min({h \in holders : hs[h].s = id})]
      of == [n \in {name[id] : id \in live} |-> CHOOSE id \in live : name[id] = n]
      trim(id) ==
        IF id \in inMap THEN hp[id]
        ELSE LET read == UNION {LiveFields(hs[h].pc) : h \in {x \in holders : hs[x].s = id}}
             IN  [f \in DOMAIN hp[id] \cap read |-> hp[id][f]]
  IN  [sessions |-> [c \in DOMAIN sess |-> IF sess[c] = 0 THEN 0 ELSE c],
       heap |-> [n \in DOMAIN of |-> trim(of[n])],
       handlers |->
         [h \in Handlers |->
            IF hs[h].pc = "idle" THEN IdleH
            ELSE IF h \in holders THEN [hs[h] EXCEPT !.s = name[hs[h].s]]
            ELSE [hs[h] EXCEPT !.s = 0]]]

\* a step that changes no reference and no await position leaves a canonical
\* state canonical
SameShape(sess, hs) ==
  /\ sess = sessions
  /\ \A h \in Handlers :
       /\ hs[h].s = handlers[h].s
       /\ LiveFields(hs[h].pc) = LiveFields(handlers[h].pc)
       /\ (hs[h].pc = "idle") = (handlers[h].pc = "idle")

Commit(sess, hp, hs) ==
  LET st == IF SameShape(sess, hs)
              THEN [sessions |-> sess, heap |-> hp, handlers |-> hs]
              ELSE Canon(sess, hp, hs)
  IN  /\ sessions' = st.sessions
      /\ heap' = st.heap
      /\ handlers' = st.handlers

\* heap with object id bound to o (new or replaced)
Bind(hp, id, o) == [x \in DOMAIN hp \cup {id} |-> IF x = id THEN o ELSE hp[x]]

\* the session store as a pair, so that getSession / resetSession are
\* functions of it
Store(sess, hp) == [sessions |-> sess, heap |-> hp]

\* sessions.has(chatId)
Has(st, chatId) == st.sessions[chatId] # 0

\* getSession as it would be if it stored a new object on every access
getSession_fresh(st, chatId) ==
  Store([st.sessions EXCEPT ![chatId] = Fresh],
        Bind(st.heap, Fresh, DefaultSession))

\* function getSession(chatId): the store afterwards; the object returned
\* is st.sessions[chatId] of the result
getSession(st, chatId) ==
  IF ~Has(st, chatId)
    THEN Store([st.sessions EXCEPT ![chatId] = Fresh],
               Bind(st.heap, Fresh, DefaultSession))
    ELSE st

\* resetSession as it would be if it cleared the step of the stored object
\* and left the rest of it
resetSession_stepOnly(st, chatId) ==
  IF Has(st, chatId)
    THEN Store(st.sessions,
               Bind(st.heap, st.sessions[chatId],
                    Put(st.heap[st.sessions[chatId]], "step", NONE)))
    ELSE Store([st.sessions EXCEPT ![chatId] = Fresh],
               Bind(st.heap, Fresh, DefaultSession))

\* resetSession as it would be if it emptied the Map before storing the
\* new object
resetSession_clearing(st, chatId) ==
  Store([c \in DOMAIN st.sessions |-> IF c = chatId THEN Fresh ELSE 0],
        Bind(st.heap, Fresh, DefaultSession))

\* function resetSession(chatId): a new object replaces the entry
resetSession(st, chatId) ==
  Store([st.sessions EXCEPT ![chatId] = Fresh],
        Bind(st.heap, Fresh, DefaultSession))

Cur == Store(sessions, heap)

Init ==
  /\ sessions = [c \in SoloChats |-> 0]
  /\ heap = [x \in {} |-> DefaultSession]
  /\ handlers = [h \in Handlers |-> IdleH]
  /\ sent = NoMsg

\* handlers of chat c whose copy loop is between its first and last attempt
InLoop(hrec) == hrec.pc \in {"copy", "retry"}
\* handlers that have set running = true and not yet reset the session
Running(hrec) == hrec.pc \in {"starting", "copy", "retry", "summary"}

\* /cancel as it would be if it emptied the session object in place,
\* which is what stopping a loop in progress through the session would take
Cancel_inPlace(c) ==
  LET st == getSession(Cur, c)
  IN  /\ Commit(st.sessions, Bind(st.heap, st.sessions[c], DefaultSession), handlers)
      /\ sent' = Msg(c, "Cancelled", <<>>)

\* bot.onText(/^\/cancel/)
Cancel(c) ==
  LET st == resetSession(Cur, c)
  IN  /\ Commit(st.sessions, st.heap, handlers)
      /\ sent' = Msg(c, "Cancelled", <<>>)

\* if (s.running) return;
TestBlocked(s) == s.running

\* bot.onText(/^\/test/).  The handler first sends its explanation and
\* awaits that; it touches the session only after the await, in one piece
\* (lines 131-133), so the action is that resumption, which may come at any
\* moment after the command.
Test(c) ==
  LET st == getSession(Cur, c)
      id == st.sessions[c]
      s == st.heap[id]
      hp == IF TestBlocked(s) THEN st.heap
            ELSE Bind(st.heap, id, Put(s, "step", "TEST_USERNAME"))
  IN  /\ Commit(st.sessions, hp, handlers)
      /\ sent' = Msg(c, "Username resolving test", <<>>)

\* the guard of /forward as it would be without the running check
ForwardRejected_never(s) == FALSE

\* if (s.running) { warn; return; }
ForwardRejected(s) == s.running

\* the range as it would be without the swap
ForwardRange_unswapped(a, b) == <<a, b>>

\* if (endId < startId) [startId, endId] = [endId, startId];
ForwardRange(a, b) == IF Lt(b, a) THEN <<b, a>> ELSE <<a, b>>

\* the assignments of an accepted /forward as they would be if the
\* references of the setup before were kept
ForwardStore_keepingRefs(s, a, b) ==
  LET r == ForwardRange(a, b)
  IN  Put(Put(Put(s, "startId", r[1]), "endId", r[2]), "step", "SRC")

\* the assignments of an accepted /forward
ForwardStore(s, a, b) ==
  LET r == ForwardRange(a, b)
  IN  Put(Put(Put(Put(Put(s, "startId", r[1]), "endId", r[2]),
                  "srcRef", Null), "dstRef", Null), "step", "SRC")

\* bot.onText(/^\/forward ... (-?\d+) (-?\d+)/)
Forward(c, a, b) ==
  LET st == getSession(Cur, c)
      id == st.sessions[c]
      s == st.heap[id]
      reply == IF ForwardRejected(s) THEN Msg(c, "A forward job is already running", <<>>)
               ELSE IF ~IsInteger(a) \/ ~IsInteger(b) THEN Msg(c, "must be integers", <<>>)
               ELSE Msg(c, "Range set", ForwardRange(a, b))
      hp == IF reply.text = "Range set"
              THEN Bind(st.heap, id, ForwardStore(s, a, b))
              ELSE st.heap
  IN  /\ Commit(st.sessions, hp, handlers)
      /\ sent' = reply

\* async function resolveChatId: a number is returned as it is, anything
\* else goes to bot.getChat
ResolvesLocally(ref) == IsNum(ref)
\* getChat can find a chat only for a username
CanResolve(ref) == ResolvesLocally(ref) \/ ref.t = "string"
CanFail(ref) == ~ResolvesLocally(ref)
resolveChatId(ref) == IF ResolvesLocally(ref) THEN ref ELSE ChatIdOf(ref)

\* the guard of the TEST flow as it would be if it let numbers through
TestRefRejected_nullOnly(ref) == Falsy(ref)

\* the step handler's guard in the TEST flow: !ref || typeof ref === "number"
TestRefRejected(ref) == Falsy(ref) \/ IsNum(ref)
\* the guard of the SRC and DST steps: !ref
RefRejected(ref) == Falsy(ref)

\* the text starts with "/"
IsCommand(text) == text # <<>> /\ Head(text) = "/"

\* the session the step handler works on: sessions.get(chatId), 0 when the
\* handler returns before it has one (empty text, a command, no entry, no step)
StepSession(c, text) ==
  IF text = <<>> \/ IsCommand(text) \/ sessions[c] = 0 THEN 0
  ELSE IF heap[sessions[c]].step = NONE THEN 0
  ELSE sessions[c]

InvalidInput == "Invalid input"

\* bot.on("message"), from its start to its first await or its return.
\* slot is the handler record that will carry the invocation on if it
\* suspends at an await it has work after.
StepHandler(c, raw, slot) ==
  LET text == Trim(raw)
      id == StepSession(c, text)
      s == heap[id]
      ref == normalizeChatRef(text)
      same == [heap |-> heap, hs |-> handlers, reply |-> ""]
      start(o, pc, arg) ==
        [heap |-> Bind(heap, id, o),
         hs |-> [handlers EXCEPT ![slot] =
                   [IdleH EXCEPT !.pc = pc, !.chat = c, !.s = id, !.ref = arg]],
         reply |-> ""]
  IN  IF id = 0 THEN same
      ELSE IF s.step = "TEST_USERNAME" THEN
        IF TestRefRejected(ref)
          THEN [same EXCEPT !.reply = "Please send a username"]
          ELSE start(s, "testResolve", ref)
      ELSE IF s.step = "SRC" THEN
        IF RefRejected(ref)
          THEN [same EXCEPT !.reply = InvalidInput]
          ELSE [same EXCEPT
                  !.heap = Bind(heap, id, Put(Put(s, "srcRef", ref), "step", "DST")),
                  !.reply = "Source received"]
      ELSE IF s.step = "DST" THEN
        IF RefRejected(ref)
          THEN [same EXCEPT !.reply = InvalidInput]
          ELSE LET o == Put(Put(s, "dstRef", ref), "step", NONE)
               IN  start(o, "resolveSrc", Get(o, "srcRef"))
      ELSE same

IdleSlots == Handlers \ Active(handlers)

\* the step handler as it would be if it took the session with getSession
Message_creating(c, raw) ==
  /\ IdleSlots # {}
  /\ LET r == StepHandler(c, raw, Min(IdleSlots))
         st == getSession(Store(sessions, r.heap), c)
     IN  /\ Commit(st.sessions, st.heap, r.hs)
         /\ sent' = IF r.reply = "" THEN NoMsg ELSE Msg(c, r.reply, <<>>)

\* bot.on("message")
Message(c, raw) ==
  /\ IdleSlots # {}
  /\ LET r == StepHandler(c, raw, Min(IdleSlots))
     IN  /\ Commit(sessions, r.heap, r.hs)
         /\ sent' = IF r.reply = "" THEN NoMsg ELSE Msg(c, r.reply, <<>>)

\* ------------------------------------------------ the suspended invocations
\* The invocation h of the step handler, resumed at the await it is at.
Rec(h) == handlers[h]
Obj(h) == heap[handlers[h].s]

Finish(h, st, reply) ==
  /\ Commit(st.sessions, st.heap, [handlers EXCEPT ![h] = IdleH])
  /\ sent' = IF reply = "" THEN NoMsg ELSE Msg(handlers[h].chat, reply, <<>>)

Continue(h, hp, hrec, reply) ==
  /\ Commit(sessions, hp, [handlers EXCEPT ![h] = hrec])
  /\ sent' = IF reply = "" THEN NoMsg ELSE Msg(handlers[h].chat, reply, <<>>)

\* TEST flow, lines 193-196: resolved, the id is reported, the session reset
TestResolved(h) ==
  /\ Rec(h).pc = "testResolve"
  /\ CanResolve(Rec(h).ref)
  /\ Finish(h, resetSession(Cur, Rec(h).chat), "Resolved")

\* TEST flow, lines 197-199
TestFailed(h) ==
  /\ Rec(h).pc = "testResolve"
  /\ CanFail(Rec(h).ref)
  /\ Finish(h, resetSession(Cur, Rec(h).chat), "Could not resolve")

\* line 237 returned: srcId is set and line 252 calls resolveChatId(s.dstRef)
SrcResolved(h) ==
  /\ Rec(h).pc = "resolveSrc"
  /\ CanResolve(Rec(h).ref)
  /\ Continue(h, heap,
              [Rec(h) EXCEPT !.pc = "resolveDst",
                             !.srcId = resolveChatId(Rec(h).ref),
                             !.ref = Get(Obj(h), "dstRef")],
              "")

\* a failed source resolution as it would be if the handler went on to the
\* destination after reporting it
SrcFailed_goesOn(h) ==
  /\ Rec(h).pc = "resolveSrc"
  /\ CanFail(Rec(h).ref)
  /\ Continue(h, heap,
              [Rec(h) EXCEPT !.pc = "resolveDst", !.ref = Get(Obj(h), "dstRef")],
              "Could not resolve SOURCE")

\* lines 238-248
SrcFailed(h) ==
  /\ Rec(h).pc = "resolveSrc"
  /\ CanFail(Rec(h).ref)
  /\ Finish(h, resetSession(Cur, Rec(h).chat), "Could not resolve SOURCE")

\* line 252 returned: dstId is set, line 267 marks the session running and
\* line 269 sends the starting message
DstResolved(h) ==
  /\ Rec(h).pc = "resolveDst"
  /\ CanResolve(Rec(h).ref)
  /\ Continue(h, Bind(heap, Rec(h).s, Put(Obj(h), "running", TRUE)),
              [Rec(h) EXCEPT !.pc = "starting",
                             !.dstId = resolveChatId(Rec(h).ref),
                             !.ref = Undefined],
              "Starting copyMessage")

\* lines 253-263
DstFailed(h) ==
  /\ Rec(h).pc = "resolveDst"
  /\ CanFail(Rec(h).ref)
  /\ Finish(h, resetSession(Cur, Rec(h).chat), "Could not resolve TARGET")

\* ------------------------------------------------------------ the copy loop
\* the flood-control test as it would be without the retry_after check
IsFloodControl_statusOnly(e) == e.status = 429

\* status === 429 && retryAfter != null
IsFloodControl(e) == e.status = 429 /\ e.retryAfter.t \notin {"null", "undefined"}

\* the loop test mid <= s.endId with mid as given: the next call of
\* bot.copyMessage goes out, or the loop is over and line 314 sends the summary
LoopTest(hrec, mid, s) ==
  IF Leq(mid, Get(s, "endId"))
    THEN [hrec EXCEPT !.pc = "copy", !.mid = mid]
    ELSE [hrec EXCEPT !.pc = "summary", !.mid = mid]

\* what an invocation that has sent its summary still needs: nothing of its
\* locals (line 315 uses chatId only)
AtSummary(hrec) ==
  [IdleH EXCEPT !.pc = "summary", !.chat = hrec.chat, !.tracked = hrec.tracked]

\* the loop increment as it would be if it stepped by two
NextIndex_byTwo(mid) == Inc(Inc(mid))

\* the index after mid in the for statement: mid++
NextIndex(mid) == Inc(mid)

\* ok++
Succeeded(hrec) == [hrec EXCEPT !.ok = @ + 1]
\* a failure that is not counted
Failed_uncounted(hrec) == hrec

\* fail++
Failed(hrec) == [hrec EXCEPT !.fail = @ + 1]

\* one step of the loop; when it leaves the loop, line 314 sends
\* `Done. Success: ${ok} Failed: ${fail}`
Step(h, hrec) ==
  /\ Commit(sessions, heap,
            [handlers EXCEPT ![h] = IF hrec.pc = "summary" THEN AtSummary(hrec) ELSE hrec])
  /\ sent' = IF hrec.pc = "summary"
               THEN Msg(hrec.chat, "Done", <<hrec.ok, hrec.fail>>)
               ELSE NoMsg

\* line 269 returned: let ok = 0, fail = 0; for (let mid = s.startId; ...)
StartLoop(h) ==
  /\ Rec(h).pc = "starting"
  /\ Step(h, LoopTest([Rec(h) EXCEPT !.lo = Get(Obj(h), "startId"),
                                     !.hi = Get(Obj(h), "endId")],
                      Get(Obj(h), "startId"), Obj(h)))

\* line 279 returned: ok++, the base delay, the next index
CopySucceeded(h) ==
  /\ Rec(h).pc = "copy"
  /\ Step(h, LoopTest(Succeeded(Rec(h)), NextIndex(Rec(h).mid), Obj(h)))

\* line 279 threw e: flood control waits and retries once (lines 289-296),
\* anything else counts a failure and goes on (lines 308-310)
CopyFailed(h, e) ==
  /\ Rec(h).pc = "copy"
  /\ Step(h, IF IsFloodControl(e)
               THEN [Rec(h) EXCEPT !.pc = "retry"]
               ELSE LoopTest(Failed(Rec(h)), NextIndex(Rec(h).mid), Obj(h)))

\* line 296 returned: ok++, the base delay, continue
RetrySucceeded(h) ==
  /\ Rec(h).pc = "retry"
  /\ Step(h, LoopTest(Succeeded(Rec(h)), NextIndex(Rec(h).mid), Obj(h)))

\* a failed retry as it would be if the index were tried again from the start
RetryFailed_again(h, e) ==
  /\ Rec(h).pc = "retry"
  /\ Step(h, [Rec(h) EXCEPT !.pc = "copy"])

\* line 296 threw e2: fail++, the failure delay, continue
RetryFailed(h, e) ==
  /\ Rec(h).pc = "retry"
  /\ Step(h, LoopTest(Failed(Rec(h)), NextIndex(Rec(h).mid), Obj(h)))

\* line 314 returned: resetSession(chatId), the handler is over
Completed(h) ==
  /\ Rec(h).pc = "summary"
  /\ Finish(h, resetSession(Cur, Rec(h).chat), "")

Next ==
  \/ \E c \in SoloChats : Cancel(c)
  \/ \E c \in SoloChats : Test(c)
  \/ \E c \in SoloChats, a, b \in ForwardArgs : Forward(c, a, b)
  \/ \E c \in SoloChats, raw \in Texts : Message(c, raw)
  \/ \E h \in Handlers : TestResolved(h)
  \/ \E h \in Handlers : TestFailed(h)
  \/ \E h \in Handlers : SrcResolved(h)
  \/ \E h \in Handlers : SrcFailed(h)
  \/ \E h \in Handlers : DstResolved(h)
  \/ \E h \in Handlers : DstFailed(h)
  \/ \E h \in Handlers : StartLoop(h)
  \/ \E h \in Handlers : CopySucceeded(h)
  \/ \E h \in Handlers, e \in CopyErrors : CopyFailed(h, e)
  \/ \E h \in Handlers : RetrySucceeded(h)
  \/ \E h \in Handlers, e \in CopyErrors : RetryFailed(h, e)
  \/ \E h \in Handlers : Completed(h)

Spec == Init /\ [][Next]_vars

\* ---------------------------------------------------------------- two chats
\* The bot with one chat more, to see the handlers of different chats
\* interleave.  Each chat sends one range, one text that is no reference and
\* one handle.
PairRange == 1
PairArgs == {Num(PairRange)}
PairTexts == { <<"a", "b", "c">>, <<"c", "h", "a", "n", "_", "1">> }

PairInit ==
  /\ sessions = [c \in PairChats |-> 0]
  /\ heap = [x \in {} |-> DefaultSession]
  /\ handlers = [h \in Handlers |-> IdleH]
  /\ sent = NoMsg

PairNext ==
  \/ \E c \in PairChats : Cancel(c)
  \/ \E c \in PairChats : Test(c)
  \/ \E c \in PairChats, a, b \in PairArgs : Forward(c, a, b)
  \/ \E c \in PairChats, raw \in PairTexts : Message(c, raw)
  \/ \E h \in Handlers : TestResolved(h)
  \/ \E h \in Handlers : TestFailed(h)
  \/ \E h \in Handlers : SrcResolved(h)
  \/ \E h \in Handlers : SrcFailed(h)
  \/ \E h \in Handlers : DstResolved(h)
  \/ \E h \in Handlers : DstFailed(h)
  \/ \E h \in Handlers : StartLoop(h)
  \/ \E h \in Handlers : CopySucceeded(h)
  \/ \E h \in Handlers, e \in CopyErrors : CopyFailed(h, e)
  \/ \E h \in Handlers : RetrySucceeded(h)
  \/ \E h \in Handlers, e \in CopyErrors : RetryFailed(h, e)
  \/ \E h \in Handlers : Completed(h)

PairSpec == PairInit /\ [][PairNext]_vars

\* ---------------------------------------------------------------- progress
\* what invocation h does when the promise it awaits in its run settles:
\* the starting message (269), a copy call and the delay after it (279-310),
\* the summary (314)
RunStep(h) ==
  \/ StartLoop(h)
  \/ CopySucceeded(h)
  \/ \E e \in CopyErrors : CopyFailed(h, e)
  \/ RetrySucceeded(h)
  \/ \E e \in CopyErrors : RetryFailed(h, e)
  \/ Completed(h)

\* the runs that are followed
Tracked == {h \in Handlers : handlers[h].tracked}

\* history only: a run that has just started (line 267 done) is picked to be
\* followed to its end; one at a time
Track(h) ==
  /\ Tracked = {}
  /\ handlers[h].pc = "starting"
  /\ handlers' = [handlers EXCEPT ![h].tracked = TRUE]
  /\ UNCHANGED <<sessions, heap, sent>>

LiveNext == Next \/ \E h \in Handlers : Track(h)

\* every promise a run awaits settles (bot.sendMessage, bot.copyMessage with
\* either outcome, sleep), and the event loop then resumes the invocation:
\* weak fairness of RunStep(h).  An invocation in its run can always take its
\* next step, so ENABLED <<RunStep(h)>>_vars is Running(handlers[h]), and the
\* weak fairness condition is written with that state predicate in its place.
RunStepFair(h) == []<>(~Running(handlers[h])) \/ []<><<RunStep(h)>>_vars

LiveSpec ==
  /\ Init
  /\ [][LiveNext]_vars
  /\ \A h \in Handlers : RunStepFair(h)

\* =================================================================== claims
\* the session stored for chat c is the default session
IsDefault(c) == sessions[c] # 0 /\ heap[sessions[c]] = DefaultSession
IsDefaultAfter(c) == sessions'[c] # 0 /\ heap'[sessions'[c]] = DefaultSession

\* the session object that getSession(c) returns has running = true
StoredRunning(c) == sessions[c] # 0 /\ heap[sessions[c]].running

\* the invocations for chat c that run a Forward Runner: from line 267 until
\* the summary is sent / until the session is reset
LoopsOf(c) == {h \in Handlers : handlers[h].chat = c /\ handlers[h].pc \in {"starting", "copy", "retry"}}
RunsOf(c) == {h \in Handlers : handlers[h].chat = c /\ Running(handlers[h])}

\* a step of the copy loop of invocation h that follows a call's outcome
LoopStep(h) ==
  \/ CopySucceeded(h)
  \/ \E e \in CopyErrors : CopyFailed(h, e)
  \/ RetrySucceeded(h)
  \/ \E e \in CopyErrors : RetryFailed(h, e)

\* the error is a 429 that carries a retry-after hint, read off the error
HasRetryHint(e) == e.status = 429 /\ e.retryAfter.t = "num"

\* the counters after a loop step of h: the invocation's own, or, when the
\* step ended the loop, the ones its summary reports
OkAfter(h) == IF handlers'[h].pc = "summary" THEN sent'.data[1] ELSE handlers'[h].ok
FailAfter(h) == IF handlers'[h].pc = "summary" THEN sent'.data[2] ELSE handlers'[h].fail

\* C1: at most one Forward Runner is in progress for a chat at any time.
C1_OneRunPerChat == \A c \in Chats : Cardinality(LoopsOf(c)) <= 1

\* C2: a cancel handled while a Forward Runner executes for the chat leaves
\* running = true in the session getSession returns for that chat.
C2_CancelKeepsRunning ==
  [][\A c \in Chats : (RunsOf(c) # {} /\ Cancel(c)) => StoredRunning(c)']_vars

\* C3: a begin command handled while the chat's session has running = true
\* is rejected with the warning and changes no field of any session.
C3_BeginWhileRunningRejected ==
  [][\A c \in Chats, a, b \in ForwardArgs :
       (StoredRunning(c) /\ Forward(c, a, b)) =>
         /\ sent' = Msg(c, "A forward job is already running", <<>>)
         /\ UNCHANGED <<sessions, heap, handlers>>]_vars

C3_Witness ==
  \E c \in Chats :
    /\ sent = Msg(c, "A forward job is already running", <<>>)
    /\ StoredRunning(c)
    /\ Get(heap[sessions[c]], "startId") # Undefined

C4_InRange ==
  \A h \in Handlers :
    InLoop(handlers[h]) =>
      /\ IsNum(handlers[h].mid) /\ IsNum(handlers[h].lo) /\ IsNum(handlers[h].hi)
      /\ handlers[h].lo.v <= handlers[h].mid.v
      /\ handlers[h].mid.v <= handlers[h].hi.v

C4_Step(h) ==
  LET r == handlers[h]
      q == handlers'[h]
  IN  /\ StartLoop(h) =>
           /\ q.pc = "copy"
           /\ q.mid = Get(Obj(h), "startId")
           /\ q.lo = Get(Obj(h), "startId")
           /\ q.hi = Get(Obj(h), "endId")
      /\ LoopStep(h) =>
           \/ r.pc = "copy" /\ q.pc = "retry" /\ q.mid = r.mid
                /\ q.lo = r.lo /\ q.hi = r.hi
           \/ q.pc = "copy" /\ r.mid.v < r.hi.v /\ q.mid = Num(r.mid.v + 1)
                /\ q.lo = r.lo /\ q.hi = r.hi
           \/ q.pc = "summary" /\ r.mid = r.hi

\* C4: a run attempts the indices of its range in strictly ascending order,
\* one call at a time, starting at startIndex, skipping none, ending after
\* endIndex, each index once or twice.
C4_AscendingNoSkip ==
  /\ [](C4_InRange)
  /\ [][\A h \in Handlers : handlers'[h] # handlers[h] => C4_Step(h)]_vars

C4_Witness ==
  \E h \in Handlers :
    /\ handlers[h].pc = "retry"
    /\ handlers[h].mid = handlers[h].hi
    /\ handlers[h].lo.v < handlers[h].hi.v

C5_Step(h) ==
  LET r == handlers[h]
      q == handlers'[h]
      again == q.pc = "retry" /\ q.mid = r.mid
      movedOn == \/ q.pc = "copy" /\ q.mid = Num(r.mid.v + 1)
                 \/ q.pc = "summary"
  IN  /\ \A e \in CopyErrors :
           CopyFailed(h, e) => (IF HasRetryHint(e) THEN again ELSE movedOn)
      /\ CopySucceeded(h) => movedOn
      /\ (RetrySucceeded(h) \/ \E e \in CopyErrors : RetryFailed(h, e)) => movedOn

\* C5: an index gets a second attempt exactly when its first attempt failed
\* with 429 and a retry-after hint; after the retry the runner moves on,
\* whatever the retry's outcome.
C5_RetryOnce ==
  [][\A h \in Handlers : handlers'[h] # handlers[h] => C5_Step(h)]_vars

C5_Witness ==
  \E h \in Handlers :
    /\ handlers[h].pc = "retry"
    /\ handlers[h].mid = handlers[h].lo
    /\ handlers[h].lo.v < handlers[h].hi.v

C6_Counted ==
  \A h \in Handlers :
    InLoop(handlers[h]) =>
      handlers[h].ok + handlers[h].fail = handlers[h].mid.v - handlers[h].lo.v

C6_Step(h) ==
  LET r == handlers[h]
      q == handlers'[h]
  IN  /\ (CopySucceeded(h) \/ RetrySucceeded(h)) =>
           OkAfter(h) = r.ok + 1 /\ FailAfter(h) = r.fail
      /\ \A e \in CopyErrors :
           /\ (CopyFailed(h, e) /\ HasRetryHint(e)) =>
                OkAfter(h) = r.ok /\ FailAfter(h) = r.fail
           /\ ((CopyFailed(h, e) /\ ~HasRetryHint(e)) \/ RetryFailed(h, e)) =>
                OkAfter(h) = r.ok /\ FailAfter(h) = r.fail + 1
      /\ (LoopStep(h) /\ q.pc = "summary") =>
           /\ sent'.to = r.chat /\ sent'.text = "Done"
           /\ sent'.data[1] + sent'.data[2] = r.hi.v - r.lo.v + 1
           /\ (r.fail = 0 /\ (CopySucceeded(h) \/ RetrySucceeded(h))) =>
                sent'.data = <<r.hi.v - r.lo.v + 1, 0>>

\* C6: every index adds one to exactly one counter, succeeded if its last
\* attempt succeeded and failed otherwise, so the summary reports
\* succeeded + failed = endIndex - startIndex + 1.
C6_CountsAddUp ==
  /\ [](C6_Counted)
  /\ [][\A h \in Handlers : handlers'[h] # handlers[h] => C6_Step(h)]_vars

C6_Witness ==
  /\ sent.text = "Done"
  /\ sent.data[1] >= 1
  /\ sent.data[2] >= 1

\* the smaller and the larger of two numbers, by their values
MinOf(a, b) == IF a.v <= b.v THEN a ELSE b
MaxOf(a, b) == IF a.v <= b.v THEN b ELSE a

\* in every object that has a range, and in every loop, start <= end
RangeOrdered ==
  /\ \A id \in DOMAIN heap :
       {"startId", "endId"} \subseteq DOMAIN heap[id] =>
         /\ IsNum(heap[id].startId) /\ IsNum(heap[id].endId)
         /\ heap[id].startId.v <= heap[id].endId.v
  /\ \A h \in Handlers :
       InLoop(handlers[h]) => handlers[h].lo.v <= handlers[h].hi.v

\* C7: an accepted begin command with integers a and b stores
\* startIndex = min(a, b), endIndex = max(a, b) and step AWAITING_SOURCE;
\* wherever a range is set, startIndex <= endIndex.
C7_RangeNormalised ==
  /\ [](RangeOrdered)
  /\ [][\A c \in Chats, a, b \in ForwardArgs :
          (IsNum(a) /\ IsNum(b) /\ ~StoredRunning(c)
             /\ handlers' = handlers /\ Forward(c, a, b)) =>
            /\ heap'[sessions'[c]].startId = MinOf(a, b)
            /\ heap'[sessions'[c]].endId = MaxOf(a, b)
            /\ heap'[sessions'[c]].step = "SRC"
            /\ sent' = Msg(c, "Range set", <<MinOf(a, b), MaxOf(a, b)>>)]_vars

C7_Witness ==
  \E c \in Chats :
    /\ sent.to = c /\ sent.text = "Range set"
    /\ heap[sessions[c]].step = "SRC"
    /\ heap[sessions[c]].startId.v < heap[sessions[c]].endId.v

\* C8: right after a cancel command, the completion of a run, a failed
\* source resolution and a failed destination resolution, the session stored
\* for the chat is the default session.
C8_ResetToDefault ==
  [][/\ \A c \in Chats : Cancel(c) => IsDefaultAfter(c)
     /\ \A h \in Handlers :
          (Completed(h) \/ SrcFailed(h) \/ DstFailed(h)) =>
            IsDefaultAfter(handlers[h].chat)]_vars

C8_Witness ==
  \E c \in Chats :
    /\ sent = Msg(c, "Cancelled", <<>>)
    /\ IsDefault(c)
    /\ RunsOf(c) # {}

\* what a cancel must leave alone in a loop in progress: where the loop is,
\* what it has counted, and the end index its test reads
LoopView(hs, hp, h) ==
  [pc |-> hs[h].pc, mid |-> hs[h].mid, ok |-> hs[h].ok, fail |-> hs[h].fail,
   lo |-> hs[h].lo, hi |-> hs[h].hi, endId |-> Get(hp[hs[h].s], "endId")]

\* the end index a loop in progress tests against is the one it started with
BoundKept ==
  \A h \in Handlers :
    InLoop(handlers[h]) => Get(heap[handlers[h].s], "endId") = handlers[h].hi

\* C9: a cancel handled while a copy loop is in progress does not stop or
\* shorten it: the loop is where it was, still tests against the endIndex it
\* started with, and sends its summary only after the attempts on that index.
C9_CancelDoesNotStopLoop ==
  /\ [](BoundKept)
  /\ [][/\ \A c \in Chats :
            Cancel(c) =>
              \A h \in Handlers :
                (handlers[h].chat = c /\ InLoop(handlers[h])) =>
                  LoopView(handlers', heap', h) = LoopView(handlers, heap, h)
       /\ \A h \in Handlers :
            (handlers'[h] # handlers[h] /\ LoopStep(h) /\ handlers'[h].pc = "summary") =>
              /\ handlers[h].mid = handlers[h].hi
              /\ sent' = Msg(handlers[h].chat, "Done", <<OkAfter(h), FailAfter(h)>>)]_vars

C9_Witness ==
  \E c \in Chats, h \in Handlers :
    /\ sent = Msg(c, "Cancelled", <<>>)
    /\ handlers[h].chat = c
    /\ handlers[h].pc = "copy"
    /\ handlers[h].mid.v < handlers[h].hi.v
    /\ sessions[c] # handlers[h].s

\* the await positions of the invocations other than h, in order
PcsWithout(h) ==
  [n \in Handlers |->
     IF n < h THEN handlers[n].pc
     ELSE IF n < MaxHandlers THEN handlers[n + 1].pc
     ELSE "idle"]

\* invocation h is over after the step and the others are where they were
Returned(h) == [n \in Handlers |-> handlers'[n].pc] = PcsWithout(h)

\* source first: the destination is resolved only with the source id in
\* hand, and the session is marked running only with both
ResolvedInOrder ==
  \A h \in Handlers :
    /\ handlers[h].pc = "resolveSrc" =>
         handlers[h].srcId = Undefined /\ handlers[h].dstId = Undefined
    /\ handlers[h].pc = "resolveDst" =>
         IsNum(handlers[h].srcId) /\ handlers[h].dstId = Undefined
    /\ handlers[h].pc \in {"starting", "copy", "retry"} =>
         IsNum(handlers[h].srcId) /\ IsNum(handlers[h].dstId)

C10_Step ==
  /\ \A c \in Chats, raw \in Texts :
       LET ref == normalizeChatRef(Trim(raw))
       IN  (/\ sessions[c] # 0
            /\ heap[sessions[c]].step = "DST"
            /\ Trim(raw) # <<>> /\ ~IsCommand(Trim(raw))
            /\ ref # Null /\ ref # Num(0)
            /\ Message(c, raw)) =>
             /\ heap'[sessions'[c]].dstRef = ref
             /\ heap'[sessions'[c]].step = NONE
             /\ heap'[sessions'[c]].running = heap[sessions[c]].running
             /\ \E h \in Handlers :
                  /\ handlers[h].pc = "idle"
                  /\ handlers'[h].pc = "resolveSrc"
                  /\ handlers'[h].ref = heap[sessions[c]].srcRef
                  /\ handlers'[h].s = sessions'[c]
  /\ \A h \in Handlers :
       /\ SrcResolved(h) => handlers'[h].pc = "resolveDst"
       /\ SrcFailed(h) =>
            /\ Returned(h)
            /\ IsDefaultAfter(handlers[h].chat)
            /\ sent' = Msg(handlers[h].chat, "Could not resolve SOURCE", <<>>)
       /\ DstFailed(h) =>
            /\ Returned(h)
            /\ IsDefaultAfter(handlers[h].chat)
            /\ sent' = Msg(handlers[h].chat, "Could not resolve TARGET", <<>>)

IsAnswer(raw) == Trim(raw) # <<>> /\ ~IsCommand(Trim(raw))

\* the stored session of chat c is at the given step
AtStep(c, step) == sessions[c] # 0 /\ heap[sessions[c]].step = step

C11_Step(c, raw) ==
  LET ref == normalizeChatRef(Trim(raw))
      s == heap[sessions[c]]
      q == heap'[sessions'[c]]
  IN  /\ ((AtStep(c, "SRC") \/ AtStep(c, "DST")) /\ ref = Null) =>
           /\ sent' = Msg(c, InvalidInput, <<>>)
           /\ UNCHANGED <<sessions, heap, handlers>>
      /\ (AtStep(c, "SRC") /\ ref # Null) =>
           /\ q = Put(Put(s, "srcRef", ref), "step", "DST")
           /\ Get(q, "startId") = Get(s, "startId")
           /\ Get(q, "endId") = Get(s, "endId")
           /\ sent' = Msg(c, "Source received", <<>>)

\* C11: in AWAITING_SOURCE and AWAITING_DESTINATION a text whose
\* normalisation is null gets the error re-prompt and leaves the session as
\* it was; in AWAITING_SOURCE every other text is stored as sourceRef and
\* moves the step to AWAITING_DESTINATION, the range untouched.
C11_SourceStep ==
  [][\A c \in Chats, raw \in Texts :
       (sessions[c] # 0 /\ IsAnswer(raw) /\ Message(c, raw)) => C11_Step(c, raw)]_vars

\* the session stored for chat c is the same object with the same fields
StoredUnchanged(c) ==
  /\ sessions'[c] = sessions[c]
  /\ sessions[c] # 0 => heap'[sessions'[c]] = heap[sessions[c]]

\* the session objects marked running
RunningObjects(hp) == {id \in DOMAIN hp : "running" \in DOMAIN hp[id] /\ hp[id].running}
\* the step marks no session running
NoNewRunning == Cardinality(RunningObjects(heap')) <= Cardinality(RunningObjects(heap))

C12_Step ==
  /\ \A c \in Chats, raw \in Texts :
       LET ref == normalizeChatRef(Trim(raw))
       IN  (AtStep(c, "TEST_USERNAME") /\ IsAnswer(raw) /\ Message(c, raw)) =>
             /\ IsNum(ref) =>
                  /\ sent' = Msg(c, "Please send a username", <<>>)
                  /\ UNCHANGED <<sessions, heap, handlers>>
             /\ ref.t = "string" =>
                  /\ StoredUnchanged(c)
                  /\ NoNewRunning
                  /\ \E h \in Handlers :
                       /\ handlers[h].pc = "idle"
                       /\ handlers'[h].pc = "testResolve"
                       /\ handlers'[h].ref = ref
                       /\ \A n \in Handlers \ {h} : handlers'[n] = handlers[n]
  /\ \A h \in Handlers :
       /\ TestResolved(h) =>
            /\ Returned(h)
            /\ NoNewRunning
            /\ IsDefaultAfter(handlers[h].chat)
            /\ sent' = Msg(handlers[h].chat, "Resolved", <<>>)
       /\ TestFailed(h) =>
            /\ Returned(h)
            /\ NoNewRunning
            /\ IsDefaultAfter(handlers[h].chat)
            /\ sent' = Msg(handlers[h].chat, "Could not resolve", <<>>)

\* C12: in AWAITING_TEST_INPUT a number is answered with the guidance message
\* and nothing else happens; a handle is resolved once, the outcome is
\* reported and the session is then the default one, on success and on
\* failure; the invocation ends there, without marking the session running
\* and without a copy call.
C12_TestFlow == [][handlers' # handlers \/ sent'.text = "Please send a username" => C12_Step]_vars

C12_Witness ==
  \E c \in Chats :
    /\ sent = Msg(c, "Resolved", <<>>)
    /\ IsDefault(c)
    /\ \E h \in Handlers : handlers[h].chat = c /\ InLoop(handlers[h])

\* C13: a text that is not a command, received while the chat has no session
\* or its session's step is NONE (a run may be in progress), gets no reply,
\* creates no session entry and alters no field of any session or invocation.
C13_IgnoredAtNone ==
  [][\A c \in Chats, raw \in Texts :
       ((sessions[c] = 0 \/ AtStep(c, NONE)) /\ ~IsCommand(Trim(raw)) /\ Message(c, raw)) =>
         /\ sent' = NoMsg
         /\ UNCHANGED <<sessions, heap, handlers>>]_vars

C13_Witness ==
  \E c \in Chats, h \in Handlers :
    /\ sent = NoMsg
    /\ AtStep(c, NONE)
    /\ handlers[h].chat = c
    /\ handlers[h].pc = "copy"
    /\ handlers[h].s = sessions[c]

\* C14: no stored session has running = true together with a step other
\* than NONE.
C14_CollectingXorRunning ==
  \A c \in Chats : StoredRunning(c) => heap[sessions[c]].step = NONE

\* where the followed run is, "none" when no run is followed
TrackedRun == IF Tracked = {} THEN IdleH ELSE [handlers[CHOOSE h \in Tracked : TRUE] EXCEPT !.s = 0]
TrackedPc == IF Tracked = {} THEN "none" ELSE TrackedRun.pc
TrackedChat == TrackedRun.chat

\* the course of a run: started, the loop, the summary sent on leaving the
\* loop, the reset after it
C15_Course ==
  \/ TrackedPc = "none" /\ TrackedPc' = "starting"
  \/ TrackedPc = "starting" /\ TrackedPc' = "copy"
  \/ TrackedPc = "copy" /\ TrackedPc' \in {"copy", "retry"}
  \/ TrackedPc = "retry" /\ TrackedPc' = "copy"
  \/ /\ TrackedPc \in {"copy", "retry"} /\ TrackedPc' = "summary"
     /\ sent'.to = TrackedChat /\ sent'.text = "Done"
  \/ /\ TrackedPc = "summary" /\ TrackedPc' = "none"
     /\ IsDefaultAfter(TrackedChat)

\* C15: a Forward Runner that has started ends, whatever the outcomes of its
\* copy calls: it leaves the loop, sends its summary once, and the session
\* stored for the chat is then the default one.
C15_RunTerminates ==
  /\ [][TrackedRun' # TrackedRun => C15_Course]_vars
  /\ (Tracked # {}) ~> (Tracked = {})

C15_Witness ==
  \E h \in Tracked :
    /\ handlers[h].pc = "summary"
    /\ sent = Msg(handlers[h].chat, "Done", <<1, 1>>)

\* the step is the handling of something for chat a: a command, a text, or
\* the resumption of one of its suspended invocations
OpOf(a) ==
  \/ Cancel(a)
  \/ Test(a)
  \/ \E x, y \in ForwardArgs : Forward(a, x, y)
  \/ \E raw \in Texts : Message(a, raw)
  \/ \E h \in Handlers :
       /\ handlers[h].chat = a
       /\ \/ TestResolved(h) \/ TestFailed(h)
          \/ SrcResolved(h) \/ SrcFailed(h)
          \/ DstResolved(h) \/ DstFailed(h)
          \/ RunStep(h)

\* C16: whatever is handled for a chat, the session stored for every other
\* chat is the same object with the same fields afterwards.
C16_ChatsIndependent ==
  [][\A b \in Chats :
       ~StoredUnchanged(b) => \A a \in Chats \ {b} : ~OpOf(a)]_vars

C16_Witness ==
  \E a, b \in Chats, h \in Handlers :
    /\ a # b
    /\ sent = Msg(a, "Cancelled", <<>>)
    /\ handlers[h].chat = b /\ handlers[h].pc = "copy" /\ handlers[h].s = sessions[b]
    /\ \E n \in Handlers : handlers[n].chat = a /\ handlers[n].pc = "resolveSrc"

\* what the Map holds: for every chat the fields of its session, "none"
\* when it has no entry
Content(st) ==
  [c \in DOMAIN st.sessions |->
     IF Has(st, c) THEN st.heap[st.sessions[c]] ELSE [none |-> TRUE]]

\* C17: get creates and stores the default session on first access and
\* afterwards returns the stored session, leaving the store as it is; reset
\* stores the default session, and a second reset changes nothing in what
\* the Map holds.
C17_StoreOperations ==
  \A c \in Chats :
    LET got == getSession(Cur, c)
        once == resetSession(Cur, c)
        twice == resetSession(once, c)
    IN  /\ ~Has(Cur, c) =>
             Content(got) = [Content(Cur) EXCEPT ![c] = DefaultSession]
        /\ Has(Cur, c) => got = Cur
        /\ getSession(got, c) = got
        /\ Content(once) = [Content(Cur) EXCEPT ![c] = DefaultSession]
        /\ Content(twice) = Content(once)
        /\ IsDefault(c) => Content(once) = Content(Cur)

C17_Witness ==
  \E c \in Chats :
    /\ AtStep(c, "DST")
    /\ getSession(Cur, c) = Cur
    /\ Content(resetSession(Cur, c))[c] # Content(Cur)[c]

\* the invocations of chat c that are past the acceptance of the destination
\* and work on the session object the Map holds for c
PastDestination(c) ==
  {h \in Handlers :
     /\ handlers[h].chat = c
     /\ handlers[h].pc \in {"resolveSrc", "resolveDst", "starting", "copy", "retry"}
     /\ handlers[h].s = sessions[c]}

\* the range an object holds
RangeOf(o) == <<Get(o, "startId"), Get(o, "endId")>>

\* C18: once the destination is accepted, no begin command changes the start
\* or end index the run of that job iterates.
C18_RangeFixed ==
  [][\A c \in Chats, a, b \in ForwardArgs :
       (PastDestination(c) # {} /\ Forward(c, a, b)) =>
         RangeOf(heap'[sessions'[c]]) = RangeOf(heap[sessions[c]])]_vars

\* C19: when a run completes while the Map holds, for its chat, the session
\* of a newer setup (not running, step AWAITING_SOURCE or
\* AWAITING_DESTINATION), that session is left as it is.
C19_CompletionKeepsNewSetup ==
  [][\A h \in Handlers :
       LET c == handlers[h].chat
       IN  (/\ handlers[h].pc = "summary"
            /\ AtStep(c, "SRC") \/ AtStep(c, "DST")
            /\ ~StoredRunning(c)
            /\ Completed(h)) => StoredUnchanged(c)]_vars

\* the stored session of chat c is in a setup: a step is awaited, no run
MidSetup(c) ==
  /\ sessions[c] # 0
  /\ heap[sessions[c]].step \in {"SRC", "DST", "TEST_USERNAME"}
  /\ ~heap[sessions[c]].running

\* C20: a begin command with integers a and b, handled while a setup is in
\* progress, starts the setup again: the session holds the new range, no
\* source and no destination reference, step AWAITING_SOURCE, running false.
C20_BeginRestartsSetup ==
  [][\A c \in Chats, a, b \in ForwardArgs :
       (MidSetup(c) /\ IsInteger(a) /\ IsInteger(b)
          /\ handlers' = handlers /\ Forward(c, a, b)) =>
         /\ sessions'[c] = sessions[c]
         /\ heap'[sessions'[c]] =
              [step |-> "SRC", running |-> FALSE,
               startId |-> MinOf(a, b), endId |-> MaxOf(a, b),
               srcRef |-> Null, dstRef |-> Null]
         /\ sent' = Msg(c, "Range set", <<MinOf(a, b), MaxOf(a, b)>>)]_vars

C20_Witness ==
  \E c \in Chats, h \in Handlers :
    /\ sent = Msg(c, "Range set", <<Num(1), Num(2)>>)
    /\ RangeOf(heap[sessions[c]]) = <<Num(1), Num(2)>>
    /\ AtStep(c, "SRC")
    /\ handlers[h].chat = c
    /\ handlers[h].pc = "testResolve"

====
